---- MODULE Spec2Model ----
(***************************************************************************)
(* State-machine model of src/index-python-api.ts: the window/tab/pane     *)
(* tracker, the bridge that runs a generated Python script against iTerm2, *)
(* and the twelve tool handlers.  A handler is an async function: the part *)
(* before `await executeITermPythonScript(...)` is one step (XxxStart),    *)
(* the part after the await is another (XxxFinish).  While one handler is  *)
(* suspended on its bridge call the event loop may start another one.      *)
(***************************************************************************)
EXTENDS Naturals, Sequences, FiniteSets, Bags, TLC

\* ---------------------------------------------------------------- bounds
MaxPanes == 3        \* pane identifiers handed out: paneCounter <= MaxPanes
MaxWindows == 2      \* window/tab identifiers handed out
MaxInFlight == 2     \* handlers suspended on a bridge call at the same time
MaxCommands == 2     \* commands forwarded to the shadow process of a pane

\* -------------------------------------------------------- JS Map (ordered)
\* A Map is the sequence of its entries in insertion order; every entry
\* carries its key in the field `id`.
MapKeys(m) == {m[i].id : i \in 1..Len(m)}
MapHas(m, k) == k \in MapKeys(m)
MapIndex(m, k) == CHOOSE i \in 1..Len(m) : m[i].id = k
MapGet(m, k) == m[MapIndex(m, k)]
MapSet(m, k, v) ==
  IF MapHas(m, k) THEN [m EXCEPT ![MapIndex(m, k)] = v] ELSE Append(m, v)

SeqRange(s) == {s[i] : i \in 1..Len(s)}

\* JS `undefined`, as it prints inside a template literal
Undefined == "undefined"

VARIABLES
  windows,        \* Map<string, WindowInfo>
  tabs,           \* Map<string, TabInfo>
  panes,          \* Map<string, PaneInfo>
  windowCounter,
  tabCounter,
  paneCounter,
  ops,            \* handlers suspended at `await executeITermPythonScript`
  disk,           \* python_scripts/: path -> content of the script file
  now,            \* Date.now(), up to a renaming of the milliseconds
  sessionCounter, \* iTerm2: sessions created so far
  received,       \* iTerm2: sessions that were sent text by the current step
  ran,            \* the script run that ended in the current step
  resp,           \* the response being handed to the caller
  issued          \* history: local identifiers handed out, in order

vars == <<windows, tabs, panes, windowCounter, tabCounter, paneCounter, ops,
          disk, now, sessionCounter, received, ran, resp, issued>>

tracker == <<windows, tabs, panes>>
counters == <<windowCounter, tabCounter, paneCounter>>

\* ------------------------------------------------------------ identifiers
WindowId(n) == "window-" \o ToString(n)
TabId(n) == "tab-" \o ToString(n)
PaneId(n) == "pane-" \o ToString(n)
SessionId(n) == "s" \o ToString(n)

\* ------------------------------------------------- records of the tracker
\* createBackgroundProcess(paneId): the shadow shell.  Its stdout/stderr
\* listeners are attached only when panes.get(paneId) finds the pane.  `stdin`
\* holds the lines written to the shell, `written` counts the chunks the shell
\* has written to its stdout or stderr.
createBackgroundProcess(paneId) ==
  [listening |-> MapHas(panes, paneId), stdin |-> <<>>, written |-> 0]

PaneInfo_Inactive(id, sessionId, windowId, tabId, x, y, workingDirectory) ==
  [id |-> id, sessionId |-> sessionId, process |-> createBackgroundProcess(id),
   output |-> <<>>, windowId |-> windowId, tabId |-> tabId,
   position |-> [x |-> x, y |-> y], isActive |-> FALSE, title |-> Undefined,
   workingDirectory |-> workingDirectory, foregroundJob |-> Undefined]
PaneInfo(id, sessionId, windowId, tabId, x, y, workingDirectory) ==
  [id |-> id, sessionId |-> sessionId, process |-> createBackgroundProcess(id),
   output |-> <<>>, windowId |-> windowId, tabId |-> tabId,
   position |-> [x |-> x, y |-> y], isActive |-> TRUE, title |-> Undefined,
   workingDirectory |-> workingDirectory, foregroundJob |-> Undefined]

TabInfo_NoPanes(id, windowId, paneId) ==
  [id |-> id, windowId |-> windowId, panes |-> <<>>,
   activePaneId |-> paneId, color |-> Undefined]
TabInfo(id, windowId, paneId) ==
  [id |-> id, windowId |-> windowId, panes |-> <<paneId>>,
   activePaneId |-> paneId, color |-> Undefined]

WindowInfo(id, tabId) == [id |-> id, tabs |-> <<tabId>>, activeTabId |-> tabId]

\* ------------------------------------------------------------- the bridge
\* The generated script: the tool whose template it is, the session ids
\* interpolated into it and the caller's argument interpolated into it.
Script(tool, sessionIds, arg) ==
  [tool |-> tool, sessionIds |-> sessionIds, arg |-> arg]

NoFile == Script("no such file", <<>>, "")
NotLoaded == Script("not loaded", <<>>, "")

\* The handlers suspended on their bridge call.
InFlight == BagToSet(ops)

\* JSON.parse(stdout): the fields the handlers read; absent ones are undefined.
Payload(script) ==
  [script |-> script, error |-> Undefined, sessionId |-> Undefined,
   newSessionId |-> Undefined, title |-> Undefined,
   working_directory |-> Undefined, foreground_job |-> Undefined,
   total_panes |-> Undefined, broadcast_results |-> {},
   monitoring_duration |-> Undefined, changes |-> <<>>]

\* executeITermPythonScript, up to the await: the script is written to
\* iterm_script_${Date.now()}.py and the shell is spawned.
WriteScript(op) ==
  /\ disk' = [disk EXCEPT ![now] = op.script]
  /\ ops' = ops (+) SetToBag({[op EXCEPT !.scriptPath = now]})

\* executeITermPythonScript, the finally block: unlinkSync(scriptPath),
\* errors ignored.
UnlinkScript_Skipped(op) ==
  /\ disk' = disk
  /\ ops' = ops (-) SetToBag({op})
UnlinkScript_Respawn(op) ==
  /\ disk' = [disk EXCEPT ![op.scriptPath] = op.script]
  /\ ops' = (ops (-) SetToBag({op}))
            (+) SetToBag({[op EXCEPT !.loaded = NotLoaded, !.elapsed = 0]})
UnlinkScript(op) ==
  /\ disk' = [disk EXCEPT ![op.scriptPath] = NoFile]
  /\ ops' = ops (-) SetToBag({op})

\* --------------------------------------------- the script, run by python3
\* What iTerm2 reports for a session's variables.
SessionTitle == "zsh"
SessionPath == "/home"
SessionJob == "vim"

\* session.isAtShellPrompt, as json.dumps prints it
SessionAtPrompt == "false"

\* The three variables monitor-session polls, as one reading of a session.
Snapshot(path, job, atPrompt) ==
  [working_directory |-> path, foreground_job |-> job, at_shell_prompt |-> atPrompt]

\* The reading of a session nobody touches, and the readings of one whose
\* user changes directory or whose job returns to the prompt.
Steady == Snapshot(SessionPath, SessionJob, SessionAtPrompt)
Snapshots ==
  {Steady, Snapshot("/tmp", SessionJob, SessionAtPrompt),
   Snapshot(SessionPath, "zsh", "true")}

\* An entry of the list `changes`; the timestamp is counted in seconds from
\* start_time.
LogEntry(event, timestamp, reading) ==
  [event |-> event, timestamp |-> timestamp,
   working_directory |-> reading.working_directory,
   foreground_job |-> reading.foreground_job,
   at_shell_prompt |-> reading.at_shell_prompt]

\* `curr_working_dir != prev_working_dir or curr_foreground_job != ... or ...`
Changed_Always(curr, prev) == TRUE
Changed(curr, prev) ==
  \/ curr.working_directory # prev.working_directory
  \/ curr.foreground_job # prev.foreground_job
  \/ curr.at_shell_prompt # prev.at_shell_prompt

\* The number a decimal numeral in a script or in a caller's argument denotes.
ParseNat(numeral) == CHOOSE n \in 0..99 : ToString(n) = numeral

\* A channel triple handed to iterm2.Color; none when no color was set.
NoColor == <<>>

\* ------------------------------------------- set-tab-color: the color
\* The color strings callers pass.
ColorInputs ==
  {"#FF0000", "#ff0000", "#00FF00", "#0A141E", "#FFF", "#GG0000",
   "red", "RED", "Red", "green", "blue", "yellow",
   "purple", "cyan", "orange", "pink", "chartreuse", ""}

\* The characters of a string (TLC cannot index a string).
Characters(string) ==
  CASE string = "#FF0000" -> <<"#", "F", "F", "0", "0", "0", "0">>
    [] string = "#ff0000" -> <<"#", "f", "f", "0", "0", "0", "0">>
    [] string = "#00FF00" -> <<"#", "0", "0", "F", "F", "0", "0">>
    [] string = "#0A141E" -> <<"#", "0", "A", "1", "4", "1", "E">>
    [] string = "#FFF" -> <<"#", "F", "F", "F">>
    [] string = "#GG0000" -> <<"#", "G", "G", "0", "0", "0", "0">>
    [] string = "red" -> <<"r", "e", "d">>
    [] string = "RED" -> <<"R", "E", "D">>
    [] string = "Red" -> <<"R", "e", "d">>
    [] string = "green" -> <<"g", "r", "e", "e", "n">>
    [] string = "blue" -> <<"b", "l", "u", "e">>
    [] string = "yellow" -> <<"y", "e", "l", "l", "o", "w">>
    [] string = "purple" -> <<"p", "u", "r", "p", "l", "e">>
    [] string = "cyan" -> <<"c", "y", "a", "n">>
    [] string = "orange" -> <<"o", "r", "a", "n", "g", "e">>
    [] string = "pink" -> <<"p", "i", "n", "k">>
    [] string = "chartreuse" -> <<"c", "h", "a", "r", "t", "r", "e", "u", "s", "e">>
    [] string = "" -> <<>>

UpperCase == <<"A", "B", "C", "D", "E", "F", "G", "H", "I", "J", "K", "L", "M",
               "N", "O", "P", "Q", "R", "S", "T", "U", "V", "W", "X", "Y", "Z">>
LowerCase == <<"a", "b", "c", "d", "e", "f", "g", "h", "i", "j", "k", "l", "m",
               "n", "o", "p", "q", "r", "s", "t", "u", "v", "w", "x", "y", "z">>
HexDigits == <<"0", "1", "2", "3", "4", "5", "6", "7", "8", "9",
               "a", "b", "c", "d", "e", "f">>

\* str.lower(), character by character
LowerChar_Unchanged(c) == c
LowerChar(c) ==
  IF \E i \in 1..Len(UpperCase) : UpperCase[i] = c
  THEN LowerCase[CHOOSE i \in 1..Len(UpperCase) : UpperCase[i] = c]
  ELSE c
Lower(chars) == [i \in 1..Len(chars) |-> LowerChar(chars[i])]

\* chars[a:b], the Python slice
Slice(chars, a, b) ==
  SubSeq(chars, a + 1, IF b < Len(chars) THEN b ELSE Len(chars))

\* int(digits, 16) for digits made of letters and decimal digits: it raises
\* ValueError on the empty string and on a character that is no hex digit.
IsHex(digits) ==
  /\ digits # <<>>
  /\ \A i \in 1..Len(digits) :
        \E d \in 1..Len(HexDigits) : HexDigits[d] = LowerChar(digits[i])
HexValue(c) == (CHOOSE d \in 1..Len(HexDigits) : HexDigits[d] = LowerChar(c)) - 1
RECURSIVE HexInt(_)
HexInt(digits) ==
  IF digits = <<>> THEN 0
  ELSE 16 * HexInt(SubSeq(digits, 1, Len(digits) - 1)) + HexValue(digits[Len(digits)])

\* Channel values are kept exactly, as multiples of 1/2550: n / 255.0 is
\* n * 10 and the decimal t / 10 is t * 255.
Over255(n) == n * 10
Tenths(t) == t * 255

\* color_map.get(name, iterm2.Color(0.5, 0.5, 0.5))
ColorMap(name) ==
  CASE name = <<"r", "e", "d">> -> <<Tenths(10), Tenths(0), Tenths(0)>>
    [] name = <<"g", "r", "e", "e", "n">> -> <<Tenths(0), Tenths(10), Tenths(0)>>
    [] name = <<"b", "l", "u", "e">> -> <<Tenths(0), Tenths(0), Tenths(10)>>
    [] name = <<"y", "e", "l", "l", "o", "w">> -> <<Tenths(10), Tenths(10), Tenths(0)>>
    [] name = <<"p", "u", "r", "p", "l", "e">> -> <<Tenths(10), Tenths(0), Tenths(10)>>
    [] name = <<"c", "y", "a", "n">> -> <<Tenths(0), Tenths(10), Tenths(10)>>
    [] name = <<"o", "r", "a", "n", "g", "e">> -> <<Tenths(10), Tenths(5), Tenths(0)>>
    [] name = <<"p", "i", "n", "k">> -> <<Tenths(10), Tenths(7), Tenths(8)>>
    [] OTHER -> <<Tenths(5), Tenths(5), Tenths(5)>>

\* The script of set-tab-color raises when a channel of a `#` color cannot
\* be read, and builds color_obj otherwise.
IsHexColor(chars) == chars # <<>> /\ chars[1] = "#"
ColorRaises(chars) ==
  /\ IsHexColor(chars)
  /\ \E k \in {0, 2, 4} : ~IsHex(Slice(Tail(chars), k, k + 2))
ColorObj(chars) ==
  IF IsHexColor(chars)
  THEN [k \in 1..3 |->
          Over255(HexInt(Slice(Tail(chars), 2 * (k - 1), 2 * k)))]
  ELSE ColorMap(Lower(chars))

\* One run of a script to its end: what it prints, the sessions it creates,
\* the sessions it sends text to, the tab color it sets, the seconds it
\* takes and the readings it has taken of the session it polls.
Run(out, newSessions, recv) ==
  [out |-> out, newSessions |-> newSessions, recv |-> recv, color |-> NoColor,
   seconds |-> 0, observed |-> <<>>]

NotFoundRun(script) ==
  Run([Payload(script) EXCEPT !.error = "Target session not found"], 0, {})

\* The sessions iTerm2 has created.  The user may have closed any of them:
\* which of them still exist is up to the environment at each run.
Sessions == {SessionId(n) : n \in 0..(sessionCounter - 1)}

\* `for session in ...: if session.session_id == "<id>"` with the target
\* found: the runs of a script whose target session exists
IfFound(script, runs) ==
  {NotFoundRun(script)}
  \cup (IF script.sessionIds # <<>> /\ script.sessionIds[1] \in Sessions
        THEN runs ELSE {})

\* The runs of `script` that print one JSON object and exit 0, in the
\* current state of iTerm2.  A step that raises makes the harness exit 1,
\* which is a rejected bridge call, not a run listed here.
Runs(script) ==
  CASE script.tool = "open-terminal" ->
         IF sessionCounter < MaxPanes
         THEN {Run([Payload(script) EXCEPT !.sessionId = SessionId(sessionCounter)],
                   1, IF script.arg = Undefined THEN {}
                      ELSE {SessionId(sessionCounter)})}
         ELSE {}
    [] script.tool \in {"split-terminal-horizontal", "split-terminal-vertical"} ->
         IfFound(script,
           IF sessionCounter < MaxPanes
           THEN {Run([Payload(script) EXCEPT
                        !.newSessionId = SessionId(sessionCounter)], 1, {})}
           ELSE {})
    [] script.tool = "execute-command-in-pane" ->
         IfFound(script, {Run(Payload(script), 0, {script.sessionIds[1]})})
    [] script.tool = "get-session-info" ->
         IfFound(script,
           {Run([Payload(script) EXCEPT !.title = SessionTitle,
                                        !.working_directory = SessionPath,
                                        !.foreground_job = SessionJob], 0, {})})
    [] script.tool = "get-session-details" ->
         IfFound(script, {Run(Payload(script), 0, {})})
    [] script.tool = "set-tab-color" ->
         IfFound(script,
           IF ColorRaises(Characters(script.arg)) THEN {}
           ELSE {[Run(Payload(script), 0, {}) EXCEPT
                    !.color = ColorObj(Characters(script.arg))]})
    [] script.tool = "monitor-session" ->
         \* the loop polls until `duration` seconds have passed
         IfFound(script,
           {[Run([Payload(script) EXCEPT !.monitoring_duration = script.arg],
                 0, {}) EXCEPT !.seconds = ParseNat(script.arg)]})
    [] script.tool = "list-all-sessions" -> {Run(Payload(script), 0, {})}
    [] script.tool = "broadcast-input" ->
         \* target_sessions: the existing sessions whose id is in session_ids;
         \* each async_send_text either succeeds or raises and is recorded.
         {Run([Payload(script) EXCEPT
                 !.total_panes = ToString(Cardinality(targets)),
                 !.broadcast_results =
                    {[session_id |-> t, success |-> t \in okSet] : t \in targets}],
              0, okSet) :
            <<targets, okSet>> \in
              {<<t, o>> \in (SUBSET (SeqRange(script.sessionIds) \cap Sessions))
                            \X (SUBSET (SeqRange(script.sessionIds) \cap Sessions)) :
                 o \subseteq t}}
    [] OTHER -> {}

\* error.message of a rejected exec: the shell could not be started, or the
\* command exited non-zero or was killed (timeout 30 / the 35 s exec timeout).
ExecErrors == {"spawn /bin/sh ENOENT", "Command failed"}

\* message of the SyntaxError JSON.parse throws on unparseable stdout
ParseError == "Unexpected token"

\* str(e) of an exception a step of the script raised, and the message of a
\* failed connection: the harness prints {"error": ...} and calls sys.exit(1).
HarnessErrors == {"RPC error", "Connection error: refused"}

\* `timeout: 35000`: seconds after which exec kills the shell it spawned
ExecTimeout == 35000 \div 1000

\* `timeout 30 python3 ...`: seconds after which the harness kills python3
HarnessTimeout_AfterExec == ExecTimeout + 5
HarnessTimeout == 30

\* What `await executeITermPythonScript(script)` followed by JSON.parse gives
\* the handler: a parsed payload, or a thrown Error with its message.  Next to
\* it, what the run did: what it printed, the color it set, the seconds it
\* took and what ended it.
Thrown(message) ==
  [ok |-> FALSE, message |-> message, data |-> Payload(NoFile),
   newSessions |-> 0, recv |-> {}, stdout |-> Payload(NoFile),
   color |-> NoColor, seconds |-> 0, endedBy |-> "exit", observed |-> <<>>]
Parsed(run) ==
  [ok |-> TRUE, message |-> "", data |-> run.out,
   newSessions |-> run.newSessions, recv |-> run.recv, stdout |-> run.out,
   color |-> run.color, seconds |-> run.seconds, endedBy |-> "exit",
   observed |-> run.observed]

\* exec rejects: error.message is `Command failed: <command>\n<stderr>`,
\* whatever the script printed on stdout.
Failed(e) == Thrown("Python execution failed: " \o e)

\* The harness caught an exception: it prints the error payload and exits 1.
HarnessFailed(script, e) ==
  [Failed("Command failed") EXCEPT !.stdout = [Payload(script) EXCEPT !.error = e]]

\* python3 was still running when a time limit was reached and was killed.
Killed(op, by) ==
  [Failed("Command failed") EXCEPT !.seconds = op.elapsed, !.endedBy = by]

\* `"changes": changes` in the result a monitor-session script prints
Logged(op, run) ==
  IF run.out.monitoring_duration # Undefined
  THEN [run EXCEPT !.out.changes = op.changes, !.observed = op.observed]
  ELSE run

\* python3 runs the file it found at scriptPath when it opened it; with no
\* file there, or when python3 never got to open it, exec rejects.  A run
\* that takes longer than the process has been running has not ended yet; a
\* process that has reached a time limit has been killed.
BridgeResults_NoKill(op) ==
  IF op.loaded \in {NotLoaded, NoFile} THEN {Failed(e) : e \in ExecErrors}
  ELSE IF op.elapsed >= HarnessTimeout THEN {}
  ELSE {Failed(e) : e \in ExecErrors}
       \cup {Parsed(Logged(op, r)) :
               r \in {r \in Runs(op.loaded) : r.seconds <= op.elapsed}}
BridgeResults(op) ==
  IF op.loaded \in {NotLoaded, NoFile} THEN {Failed(e) : e \in ExecErrors}
  ELSE IF op.elapsed >= ExecTimeout THEN {Killed(op, "exec timeout")}
  ELSE IF op.elapsed >= HarnessTimeout THEN {Killed(op, "timeout")}
  ELSE {Failed(e) : e \in ExecErrors}
       \cup {Thrown(ParseError)}
       \cup {HarnessFailed(op.loaded, e) : e \in HarnessErrors}
       \cup {Parsed(Logged(op, r)) :
               r \in {r \in Runs(op.loaded) : r.seconds <= op.elapsed}}

NoRun == [stdout |-> Payload(NoFile), color |-> NoColor, seconds |-> 0,
          endedBy |-> "", observed |-> <<>>]

\* The effect of the script's run on iTerm2.
ITerm(res) ==
  /\ sessionCounter' = sessionCounter + res.newSessions
  /\ received' = res.recv
  /\ ran' = [stdout |-> res.stdout, color |-> res.color, seconds |-> res.seconds,
             endedBy |-> res.endedBy, observed |-> res.observed]

\* ------------------------------------------------------------- responses
\* What a handler ends with: it returns { content: [{ type: "text", text }] }
\* or it throws Error(text).  `text` is the template literal, part by part;
\* `op` is the invocation it answers and `data` the payload it read.
Returned(op, text, data) ==
  [op |-> [op EXCEPT !.scriptPath = 0, !.loaded = NotLoaded, !.elapsed = 0,
                     !.prev = Steady, !.changes = <<>>, !.observed = <<>>],
   outcome |-> "returned", text |-> text, data |-> data]
Raised(op, text) ==
  [op |-> [op EXCEPT !.scriptPath = 0, !.loaded = NotLoaded, !.elapsed = 0,
                     !.prev = Steady, !.changes = <<>>, !.observed = <<>>],
   outcome |-> "raised", text |-> text, data |-> Payload(NoFile)]
NoData == Payload(NoFile)

\* ------------------------------------------------------------- handlers
\* JS truthiness of an optional string argument
Truthy(v) == v \notin {Undefined, ""}

\* An invocation of a tool: `paneId`, `paneIds` and `arg` are the caller's
\* arguments, `target` the pane the handler resolved, windowId/tabId/newPaneId
\* the identifiers it allocated, `script` the script it generated;
\* `scriptPath`, `loaded` and `elapsed` belong to its bridge call; `prev` and
\* `changes` are the variables of a running monitor-session script and
\* `observed` is the history of the readings it has taken.
Op(tool, paneId, paneIds, arg, target, windowId, tabId, newPaneId, sessionIds) ==
  [tool |-> tool, paneId |-> paneId, paneIds |-> paneIds, arg |-> arg,
   target |-> target, windowId |-> windowId, tabId |-> tabId,
   newPaneId |-> newPaneId, script |-> Script(tool, sessionIds, arg),
   scriptPath |-> 0, loaded |-> NotLoaded, elapsed |-> 0,
   prev |-> Steady, changes |-> <<>>, observed |-> <<>>]

\* An invocation that never reaches the bridge.
Call(tool, paneId, paneIds, arg) ==
  Op(tool, paneId, paneIds, arg, "", "", "", "", <<>>)

NoResp == [op |-> Call("", "", <<>>, ""), outcome |-> "", text |-> <<>>,
           data |-> NoData]

\* A handler starts or resumes only when the response of the previous one
\* has been written: returning and sending are one run of the event loop.
Ready == resp = NoResp

\* A step that answers without calling the bridge.
Answer(r) ==
  /\ Ready
  /\ resp' = r
  /\ received' = {}
  /\ ran' = NoRun
  /\ UNCHANGED <<windows, tabs, panes, windowCounter, tabCounter, paneCounter,
                 ops, disk, now, sessionCounter, issued>>

\* A step that suspends on the bridge call, having changed no record.
Suspend(op) ==
  /\ Ready
  /\ BagCardinality(ops) < MaxInFlight
  /\ WriteScript(op)
  /\ resp' = NoResp
  /\ received' = {}
  /\ ran' = NoRun
  /\ UNCHANGED <<windows, tabs, panes, now, sessionCounter>>

\* The arguments callers pass.  PaneId(MaxPanes) is never handed out.
PaneIdArgs == {""} \cup {PaneId(n) : n \in 0..MaxPanes}
SomePaneIdArgs == {"", PaneId(0), PaneId(MaxPanes)}
WorkingDirectories == {"/w"}
Commands == {"ls"}

\* `Pane ${paneId} not found`, returned before any bridge call
PaneNotFound(tool, paneId) ==
  Returned(Call(tool, paneId, <<>>, ""), <<"Pane ", paneId, " not found">>, NoData)

\* `counter++`: the value the counter has after an identifier was taken
Increment_Stuck(counter) == counter
Increment(counter) == counter + 1

\* 1. open-terminal, lines 190-224
OpenTerminalStart(workingDirectory) ==
  /\ windowCounter < MaxWindows
  /\ paneCounter < MaxPanes
  /\ windowCounter' = Increment(windowCounter)
  /\ tabCounter' = Increment(tabCounter)
  /\ paneCounter' = Increment(paneCounter)
  /\ issued' = [window |-> Append(issued.window, WindowId(windowCounter)),
                tab |-> Append(issued.tab, TabId(tabCounter)),
                pane |-> Append(issued.pane, PaneId(paneCounter))]
  /\ Suspend(Op("open-terminal", Undefined, <<>>, workingDirectory, "",
                WindowId(windowCounter), TabId(tabCounter), PaneId(paneCounter),
                <<>>))

\* open-terminal, lines 226-269
OpenTerminalDone(op, res) ==
  IF res.ok
  THEN LET pane == PaneInfo(op.newPaneId, res.data.sessionId, op.windowId,
                            op.tabId, 0, 0, op.arg)
       IN /\ panes' = MapSet(panes, op.newPaneId, pane)
          /\ tabs' = MapSet(tabs, op.tabId,
                            TabInfo(op.tabId, op.windowId, op.newPaneId))
          /\ windows' = MapSet(windows, op.windowId,
                               WindowInfo(op.windowId, op.tabId))
          /\ resp' = Returned(op,
                <<"Terminal opened - Window: ", op.windowId, ", Tab: ", op.tabId,
                  ", Pane: ", op.newPaneId, ", Session: ", res.data.sessionId>>,
                res.data)
  ELSE /\ UNCHANGED <<windows, tabs, panes>>
       /\ resp' = Raised(op, <<"Failed to create terminal: ", res.message>>)

\* A suspended handler resumes with the bridge result res: the script has had
\* its effects on iTerm2, the finally block of executeITermPythonScript has
\* run, and the rest of the handler follows in the same step.
Resume(op, res) ==
  /\ Ready
  /\ op \in InFlight
  /\ ITerm(res)
  /\ UnlinkScript(op)
  /\ UNCHANGED <<windowCounter, tabCounter, paneCounter, now, issued>>

OpenTerminalFinish(op) ==
  /\ op.tool = "open-terminal"
  /\ \E res \in BridgeResults(op) : Resume(op, res) /\ OpenTerminalDone(op, res)

\* `Error: ${data.error}`, returned when the payload has an error field
ErrorPayload(op, res) == Returned(op, <<"Error: ", res.data.error>>, res.data)

\* 2./3. split-terminal-horizontal, lines 285-343; -vertical, lines 402-460
activePanes_Unfiltered == panes
activePanes == SelectSeq(panes, LAMBDA p : p.isActive)

\* `targetPane.isActive = false`
Demote_Missing(pane) == pane
Demote(pane) == [pane EXCEPT !.isActive = FALSE]

SplitTarget_Last(paneId) ==
  IF Truthy(paneId) THEN paneId ELSE activePanes[Len(activePanes)].id
SplitTarget(paneId) ==
  IF Truthy(paneId) THEN paneId ELSE activePanes[1].id

SplitStart(tool, paneId) ==
  IF Truthy(paneId) /\ ~MapHas(panes, paneId)
  THEN Answer(PaneNotFound(tool, paneId))
  ELSE IF ~Truthy(paneId) /\ Len(activePanes) = 0
  THEN Answer(Returned(Call(tool, paneId, <<>>, ""), <<"No active pane found">>,
                       NoData))
  ELSE /\ paneCounter < MaxPanes
       /\ paneCounter' = Increment(paneCounter)
       /\ issued' = [issued EXCEPT !.pane = Append(@, PaneId(paneCounter))]
       /\ Suspend(Op(tool, paneId, <<>>, "", SplitTarget(paneId), "", "",
                     PaneId(paneCounter),
                     <<MapGet(panes, SplitTarget(paneId)).sessionId>>))
       /\ UNCHANGED <<windowCounter, tabCounter>>

SplitHorizontalStart(paneId) == SplitStart("split-terminal-horizontal", paneId)
SplitVerticalStart(paneId) == SplitStart("split-terminal-vertical", paneId)

\* lines 345-386 and 462-503; (dx, dy) is the offset of the new pane
SplitDone(op, res, dx, dy, failure) ==
  IF ~res.ok
  THEN /\ UNCHANGED <<windows, tabs, panes>>
       /\ resp' = Raised(op, <<failure, res.message>>)
  ELSE IF Truthy(res.data.error)
  THEN /\ UNCHANGED <<windows, tabs, panes>>
       /\ resp' = ErrorPayload(op, res)
  ELSE LET targetPane == MapGet(panes, op.target)
           newPane == PaneInfo(op.newPaneId, res.data.newSessionId,
                               targetPane.windowId, targetPane.tabId,
                               targetPane.position.x + dx,
                               targetPane.position.y + dy, Undefined)
           tab == MapGet(tabs, targetPane.tabId)
           tabPanes == IF op.newPaneId \in SeqRange(tab.panes) THEN tab.panes
                       ELSE Append(tab.panes, op.newPaneId)
       IN /\ tabs' = MapSet(tabs, tab.id, [tab EXCEPT !.panes = tabPanes])
          /\ panes' = MapSet(MapSet(panes, op.newPaneId, newPane), op.target,
                             Demote(targetPane))
          /\ UNCHANGED windows
          /\ resp' = Returned(op,
                <<IF dy = 1 THEN "Pane split horizontally - New pane: "
                  ELSE "Pane split vertically - New pane: ",
                  op.newPaneId, ", Session: ", res.data.newSessionId>>, res.data)

SplitHorizontalDone(op, res) ==
  SplitDone(op, res, 0, 1, "Failed to split pane horizontally: ")
SplitVerticalDone_AlongY(op, res) ==
  SplitDone(op, res, 0, 1, "Failed to split pane vertically: ")
SplitVerticalDone(op, res) ==
  SplitDone(op, res, 1, 0, "Failed to split pane vertically: ")

SplitHorizontalFinish(op) ==
  /\ op.tool = "split-terminal-horizontal"
  /\ \E res \in BridgeResults(op) : Resume(op, res) /\ SplitHorizontalDone(op, res)
SplitVerticalFinish(op) ==
  /\ op.tool = "split-terminal-vertical"
  /\ \E res \in BridgeResults(op) : Resume(op, res) /\ SplitVerticalDone(op, res)

\* 4. execute-command-in-pane, lines 518-553
ExecuteCommandStart(paneId, command) ==
  IF ~MapHas(panes, paneId)
  THEN Answer(PaneNotFound("execute-command-in-pane", paneId))
  ELSE /\ Len(MapGet(panes, paneId).process.stdin) < MaxCommands
       /\ Suspend(Op("execute-command-in-pane", paneId, <<>>, command, paneId,
                     "", "", "", <<MapGet(panes, paneId).sessionId>>))
       /\ UNCHANGED <<windowCounter, tabCounter, paneCounter, issued>>

\* `pane.process.stdin.write(command + "\n")`
Forward(pane, command) == [pane EXCEPT !.process.stdin = Append(@, command)]

\* lines 555-586
ExecuteCommandDone(op, res) ==
  IF ~res.ok
  THEN /\ UNCHANGED <<windows, tabs, panes>>
       /\ resp' = Returned(op, <<"Failed to execute command in pane ", op.paneId,
                                 ": ", res.message>>, NoData)
  ELSE IF Truthy(res.data.error)
  THEN /\ UNCHANGED <<windows, tabs, panes>>
       /\ resp' = ErrorPayload(op, res)
  ELSE /\ panes' = MapSet(panes, op.target,
                          Forward(MapGet(panes, op.target), op.arg))
       /\ UNCHANGED <<windows, tabs>>
       /\ resp' = Returned(op, <<"Command executed in pane ", op.paneId, ": ",
                                 op.arg>>, res.data)

ExecuteCommandFinish(op) ==
  /\ op.tool = "execute-command-in-pane"
  /\ \E res \in BridgeResults(op) : Resume(op, res) /\ ExecuteCommandDone(op, res)

\* JSON.stringify(data, null, 2) inside a response text
Json(data) ==
  <<"{", data.script.tool, data.error, data.title, data.working_directory,
    data.foreground_job, data.monitoring_duration, "}">>

\* The handlers that look one pane up, call the bridge with its session id
\* and change no counter: lines 600-609, 802-811, 1003-1012
PaneToolStart(tool, paneId, arg) ==
  IF ~MapHas(panes, paneId)
  THEN Answer(PaneNotFound(tool, paneId))
  ELSE /\ Suspend(Op(tool, paneId, <<>>, arg, paneId, "", "", "",
                     <<MapGet(panes, paneId).sessionId>>))
       /\ UNCHANGED <<windowCounter, tabCounter, paneCounter, issued>>

\* 5. get-session-info, lines 600-641
GetSessionInfoStart(paneId) == PaneToolStart("get-session-info", paneId, "")

\* `pane.title = data.title; pane.workingDirectory = ...; pane.foregroundJob = ...`
Refresh_SessionToo(pane, data) ==
  [pane EXCEPT !.title = data.title,
               !.workingDirectory = data.working_directory,
               !.foregroundJob = data.foreground_job,
               !.sessionId = data.sessionId]
Refresh(pane, data) ==
  [pane EXCEPT !.title = data.title,
               !.workingDirectory = data.working_directory,
               !.foregroundJob = data.foreground_job]

\* lines 643-674
GetSessionInfoDone(op, res) ==
  IF ~res.ok
  THEN /\ UNCHANGED <<windows, tabs, panes>>
       /\ resp' = Returned(op, <<"Failed to get session info: ", res.message>>,
                           NoData)
  ELSE IF Truthy(res.data.error)
  THEN /\ UNCHANGED <<windows, tabs, panes>>
       /\ resp' = ErrorPayload(op, res)
  ELSE /\ panes' = MapSet(panes, op.target,
                          Refresh(MapGet(panes, op.target), res.data))
       /\ UNCHANGED <<windows, tabs>>
       /\ resp' = Returned(op, <<"Session Information for ", op.paneId, ":\n">>
                               \o Json(res.data), res.data)

GetSessionInfoFinish(op) ==
  /\ op.tool = "get-session-info"
  /\ \E res \in BridgeResults(op) : Resume(op, res) /\ GetSessionInfoDone(op, res)

\* 6. get-session-details, lines 688-748: the caller names the session
SessionIdArgs == {SessionId(0), "nope"}

GetSessionDetailsStart(sessionId) ==
  /\ Suspend(Op("get-session-details", Undefined, <<>>, sessionId, "", "", "", "",
                <<sessionId>>))
  /\ UNCHANGED <<windowCounter, tabCounter, paneCounter, issued>>

\* lines 750-788
GetSessionDetailsDone(op, res) ==
  /\ UNCHANGED <<windows, tabs, panes>>
  /\ resp' =
       IF ~res.ok
       THEN Returned(op, <<"Failed to read session content: ", res.message>>, NoData)
       ELSE IF Truthy(res.data.error) THEN ErrorPayload(op, res)
       ELSE Returned(op, <<"Detailed Session Information (", op.arg, "):\n">>
                         \o Json(res.data), res.data)

GetSessionDetailsFinish(op) ==
  /\ op.tool = "get-session-details"
  /\ \E res \in BridgeResults(op) : Resume(op, res) /\ GetSessionDetailsDone(op, res)

\* 7. set-tab-color, lines 802-865
Colors == {"red"}

SetTabColorStart(paneId, color) == PaneToolStart("set-tab-color", paneId, color)

\* lines 867-898
SetTabColorDone(op, res) ==
  IF ~res.ok
  THEN /\ UNCHANGED <<windows, tabs, panes>>
       /\ resp' = Returned(op, <<"Failed to set tab color: ", res.message>>, NoData)
  ELSE IF Truthy(res.data.error)
  THEN /\ UNCHANGED <<windows, tabs, panes>>
       /\ resp' = ErrorPayload(op, res)
  ELSE LET tab == MapGet(tabs, MapGet(panes, op.target).tabId)
       IN /\ tabs' = MapSet(tabs, tab.id, [tab EXCEPT !.color = op.arg])
          /\ UNCHANGED <<windows, panes>>
          /\ resp' = Returned(op, <<"Tab color set to ", op.arg, " for pane ",
                                    op.paneId>>, res.data)

SetTabColorFinish(op) ==
  /\ op.tool = "set-tab-color"
  /\ \E res \in BridgeResults(op) : Resume(op, res) /\ SetTabColorDone(op, res)

\* 8. list-all-sessions, lines 909-960
ListAllSessionsStart ==
  /\ Suspend(Op("list-all-sessions", Undefined, <<>>, "", "", "", "", "", <<>>))
  /\ UNCHANGED <<windowCounter, tabCounter, paneCounter, issued>>

\* lines 962-988
ListAllSessionsDone(op, res) ==
  /\ UNCHANGED <<windows, tabs, panes>>
  /\ resp' =
       IF ~res.ok
       THEN Returned(op, <<"Failed to list sessions: ", res.message>>, NoData)
       ELSE IF Truthy(res.data.error) THEN ErrorPayload(op, res)
       ELSE Returned(op, <<"iTerm2 Sessions Overview:\n">> \o Json(res.data),
                     res.data)

ListAllSessionsFinish(op) ==
  /\ op.tool = "list-all-sessions"
  /\ \E res \in BridgeResults(op) : Resume(op, res) /\ ListAllSessionsDone(op, res)

\* 9. monitor-session, lines 1003-1079.  The durations callers pass, as they
\* are written in the request; Undefined when the argument is left out.
Durations == {Undefined, "0", "2", "30", "40"}

\* `duration: z.number().optional().default(10)`
SchemaDuration(duration) ==
  IF duration = Undefined THEN 10 ELSE ParseNat(duration)

\* `${duration || 10}`, the number written into the script
EffectiveDuration(duration) == IF duration = 0 THEN 10 ELSE duration

MonitorSessionStart(paneId, duration) ==
  IF ~MapHas(panes, paneId)
  THEN Answer(PaneNotFound("monitor-session", paneId))
  ELSE /\ Suspend([Op("monitor-session", paneId, <<>>, duration, paneId, "", "",
                      "", <<MapGet(panes, paneId).sessionId>>)
                   EXCEPT !.script.arg =
                            ToString(EffectiveDuration(SchemaDuration(duration)))])
       /\ UNCHANGED <<windowCounter, tabCounter, paneCounter, issued>>

\* lines 1081-1108
MonitorSessionDone(op, res) ==
  /\ UNCHANGED <<windows, tabs, panes>>
  /\ resp' =
       IF ~res.ok
       THEN Returned(op, <<"Failed to monitor session: ", res.message>>, NoData)
       ELSE IF Truthy(res.data.error) THEN ErrorPayload(op, res)
       ELSE Returned(op, <<"Session Monitoring Results for ", op.paneId, ":\n">>
                         \o Json(res.data), res.data)

MonitorSessionFinish(op) ==
  /\ op.tool = "monitor-session"
  /\ \E res \in BridgeResults(op) : Resume(op, res) /\ MonitorSessionDone(op, res)

\* 10. broadcast-input, lines 1122-1163
PaneIdLists ==
  {<<>>, <<PaneId(MaxPanes)>>, <<PaneId(0), PaneId(MaxPanes)>>,
   <<PaneId(1), PaneId(0)>>}

validPanes(paneIds) == SelectSeq(paneIds, LAMBDA id : MapHas(panes, id))

\* `validPanes.length === 0`
NoValidPanes_RawList(paneIds) == Len(paneIds) = 0
NoValidPanes(paneIds) == Len(validPanes(paneIds)) = 0

BroadcastInputStart(paneIds, command) ==
  IF NoValidPanes(paneIds)
  THEN Answer(Returned(Call("broadcast-input", Undefined, paneIds, command),
                       <<"No valid panes found">>, NoData))
  ELSE /\ Suspend(Op("broadcast-input", Undefined, paneIds, command, "", "", "", "",
                     [i \in 1..Len(validPanes(paneIds)) |->
                        MapGet(panes, validPanes(paneIds)[i]).sessionId]))
       /\ UNCHANGED <<windowCounter, tabCounter, paneCounter, issued>>

\* lines 1165-1183
BroadcastInputDone(op, res) ==
  /\ UNCHANGED <<windows, tabs, panes>>
  /\ resp' =
       IF ~res.ok
       THEN Returned(op, <<"Failed to broadcast input: ", res.message>>, NoData)
       ELSE Returned(op, <<"Broadcast Results:\nCommand \"", op.arg, "\" sent to ",
                           res.data.total_panes, " panes\n">> \o Json(res.data),
                     res.data)

BroadcastInputFinish(op) ==
  /\ op.tool = "broadcast-input"
  /\ \E res \in BridgeResults(op) : Resume(op, res) /\ BroadcastInputDone(op, res)

\* list-panes, lines 1194-1205
PaneLine(pane) ==
  <<pane.id, ": Window=", pane.windowId, ", Tab=", pane.tabId, ", Session=",
    pane.sessionId, ", Position=(", ToString(pane.position.x), ",",
    ToString(pane.position.y), "), Active=", ToString(pane.isActive)>>

RECURSIVE Join(_)
Join(lines) == IF lines = <<>> THEN <<>> ELSE Head(lines) \o Join(Tail(lines))

ListPanes ==
  Answer(Returned(Call("list-panes", Undefined, <<>>, ""),
                  <<"Total panes: ", ToString(Len(panes)), "\n">>
                  \o (IF panes = <<>> THEN <<"No panes found">>
                      ELSE Join([i \in 1..Len(panes) |-> PaneLine(panes[i])])),
                  NoData))

\* get-terminal-state, lines 1215-1237
TabState(tabId) ==
  <<"tabId: ", tabId, "activePaneId: ", MapGet(tabs, tabId).activePaneId,
    "panes: ">> \o MapGet(tabs, tabId).panes

WindowState(window) ==
  <<"windowId: ", window.id, "activeTabId: ", window.activeTabId>>
  \o Join([i \in 1..Len(window.tabs) |-> TabState(window.tabs[i])])

GetTerminalState ==
  Answer(Returned(Call("get-terminal-state", Undefined, <<>>, ""),
                  <<"Terminal State Overview:\n", ToString(Len(windows)),
                    ToString(Len(tabs)), ToString(Len(panes))>>
                  \o Join([i \in 1..Len(windows) |-> WindowState(windows[i])]),
                  NoData))

\* ------------------------------------------------------------ environment
\* A monitor-session script starts: the initial reading is logged.
Started(op) ==
  IF op.loaded.tool = "monitor-session"
  THEN [op EXCEPT !.prev = Steady, !.observed = <<Steady>>,
                  !.changes = <<LogEntry("monitoring_started", 0, Steady)>>]
  ELSE op

\* python3 starts and opens the script file named on its command line.
LoadScript(op) ==
  /\ Ready
  /\ op \in InFlight
  /\ op.loaded = NotLoaded
  /\ ops' = (ops (-) SetToBag({op}))
            (+) SetToBag({Started([op EXCEPT !.loaded = disk[op.scriptPath]])})
  /\ UNCHANGED <<windows, tabs, panes, windowCounter, tabCounter, paneCounter,
                 disk, now, sessionCounter, received, ran, resp, issued>>

\* The response is written to the transport.
Deliver ==
  /\ ~Ready
  /\ resp' = NoResp
  /\ received' = {}
  /\ ran' = NoRun
  /\ UNCHANGED <<windows, tabs, panes, windowCounter, tabCounter, paneCounter,
                 ops, disk, now, sessionCounter, issued>>

\* Time passes: Date.now() becomes a value no pending script is named after.
\* Only the equality of timestamps matters, so the milliseconds are named
\* 0..MaxInFlight and a step of the clock is taken only when it changes which
\* pending script a new one would overwrite.
Milliseconds == 0..MaxInFlight
UsedMilliseconds == {op.scriptPath : op \in InFlight}

Tick ==
  /\ Ready
  /\ now \in UsedMilliseconds
  /\ now' = CHOOSE t \in Milliseconds \ UsedMilliseconds :
               \A u \in Milliseconds \ UsedMilliseconds : t <= u
  /\ UNCHANGED <<windows, tabs, panes, windowCounter, tabCounter, paneCounter,
                 ops, disk, sessionCounter, received, ran, resp, issued>>

\* A second passes for the python3 processes whose script is still running.
Running(op) ==
  /\ op.loaded \notin {NotLoaded, NoFile}
  /\ op.elapsed < HarnessTimeout
  /\ op.elapsed < ExecTimeout
  /\ \E r \in Runs(op.loaded) : r.seconds > op.elapsed

\* One turn of the loop of a monitor-session script: after
\* `await asyncio.sleep(1)` the three variables are read as `curr`.
Polled(op, curr) ==
  IF op.loaded.tool # "monitor-session" THEN op
  ELSE IF Changed(curr, op.prev)
  THEN [op EXCEPT !.observed = Append(@, curr),
                  !.changes = Append(@, LogEntry("change_detected", op.elapsed,
                                                 curr)),
                  !.prev = curr]
  ELSE [op EXCEPT !.observed = Append(@, curr)]

Aged(op, curr) ==
  IF Running(op) THEN Polled([op EXCEPT !.elapsed = @ + 1], curr) ELSE op

RECURSIVE AgedBag(_, _)
AgedBag(S, curr) ==
  IF S = {} THEN EmptyBag
  ELSE LET op == CHOOSE o \in S : TRUE
       IN [o \in {Aged(op, curr)} |-> ops[op]] (+) AgedBag(S \ {op}, curr)

\* A second passes while the sessions read `curr`.
Poll(curr) ==
  /\ Ready
  /\ \E op \in InFlight : Running(op)
  /\ ops' = AgedBag(InFlight, curr)
  /\ UNCHANGED <<windows, tabs, panes, windowCounter, tabCounter, paneCounter,
                 disk, now, sessionCounter, received, ran, resp, issued>>

\* A second passes and nobody has touched the sessions.
Second == Poll(Steady)

\* A second passes in which the user of the sessions has done something.
Observe == \E curr \in Snapshots \ {Steady} : Poll(curr)

\* The shadow shell of a tracked pane runs the next line of its stdin and
\* writes a chunk to its stdout or stderr; the chunk reaches the pane's output
\* buffer through the `data` listeners, when they were attached.
Chunk(command) == "$ " \o command

ShadowOutput(paneId) ==
  /\ Ready
  /\ MapHas(panes, paneId)
  /\ LET pane == MapGet(panes, paneId)
     IN /\ pane.process.written < Len(pane.process.stdin)
        /\ panes' = MapSet(panes, paneId,
              [pane EXCEPT
                 !.process.written = @ + 1,
                 !.output = IF pane.process.listening
                            THEN Append(@, Chunk(pane.process.stdin[
                                                   pane.process.written + 1]))
                            ELSE @])
  /\ UNCHANGED <<windows, tabs, windowCounter, tabCounter, paneCounter, ops, disk,
                 now, sessionCounter, received, ran, resp, issued>>

\* ---------------------------------------------------------- specification
Init ==
  /\ windows = <<>>
  /\ tabs = <<>>
  /\ panes = <<>>
  /\ windowCounter = 0
  /\ tabCounter = 0
  /\ paneCounter = 0
  /\ ops = EmptyBag
  /\ disk = [t \in 0..MaxInFlight |-> NoFile]
  /\ now = 0
  /\ sessionCounter = 0
  /\ received = {}
  /\ ran = NoRun
  /\ resp = NoResp
  /\ issued = [window |-> <<>>, tab |-> <<>>, pane |-> <<>>]

Environment ==
  \/ \E op \in InFlight : LoadScript(op)
  \/ Deliver
  \/ Tick

\* Pane identifiers that are never in the tracker
UnknownPaneIds == {"", PaneId(MaxPanes)}

\* The tools that create records, called in any order and overlapping; the
\* other pane tools called with identifiers that are not in the tracker.
Next ==
  \/ \E wd \in WorkingDirectories : OpenTerminalStart(wd)
  \/ \E op \in InFlight : OpenTerminalFinish(op)
  \/ \E paneId \in PaneIdArgs \cup {Undefined} : SplitHorizontalStart(paneId)
  \/ \E op \in InFlight : SplitHorizontalFinish(op)
  \/ \E paneId \in PaneIdArgs \cup {Undefined} : SplitVerticalStart(paneId)
  \/ \E op \in InFlight : SplitVerticalFinish(op)
  \/ \E paneId \in UnknownPaneIds, command \in Commands :
        ExecuteCommandStart(paneId, command)
  \/ \E paneId \in UnknownPaneIds : GetSessionInfoStart(paneId)
  \/ \E paneId \in UnknownPaneIds, color \in Colors : SetTabColorStart(paneId, color)
  \/ \E paneId \in UnknownPaneIds, duration \in Durations :
        MonitorSessionStart(paneId, duration)
  \/ ListPanes
  \/ GetTerminalState
  \/ Environment

Spec == Init /\ [][Next]_vars

\* broadcast-input next to open-terminal, overlapping.
NextBroadcast ==
  \/ \E wd \in WorkingDirectories : OpenTerminalStart(wd)
  \/ \E op \in InFlight : OpenTerminalFinish(op)
  \/ \E paneIds \in PaneIdLists, command \in Commands :
        BroadcastInputStart(paneIds, command)
  \/ \E op \in InFlight : BroadcastInputFinish(op)
  \/ Environment

SpecBroadcast == Init /\ [][NextBroadcast]_vars

\* The tools that refresh a pane's record, next to open-terminal, overlapping.
NextInfo ==
  \/ \E wd \in WorkingDirectories : windowCounter = 0 /\ OpenTerminalStart(wd)
  \/ \E op \in InFlight : OpenTerminalFinish(op)
  \/ \E paneId \in SomePaneIdArgs : GetSessionInfoStart(paneId)
  \/ \E op \in InFlight : GetSessionInfoFinish(op)
  \/ \E paneId \in SomePaneIdArgs, color \in Colors : SetTabColorStart(paneId, color)
  \/ \E op \in InFlight : SetTabColorFinish(op)
  \/ Environment

SpecInfo == Init /\ [][NextInfo]_vars

\* The tools that leave the tracker alone, next to open-terminal, overlapping.
NextSession ==
  \/ \E wd \in WorkingDirectories : windowCounter = 0 /\ OpenTerminalStart(wd)
  \/ \E op \in InFlight : OpenTerminalFinish(op)
  \/ \E paneId \in SomePaneIdArgs, command \in Commands :
        ExecuteCommandStart(paneId, command)
  \/ \E op \in InFlight : ExecuteCommandFinish(op)
  \/ \E sessionId \in SessionIdArgs : GetSessionDetailsStart(sessionId)
  \/ \E op \in InFlight : GetSessionDetailsFinish(op)
  \/ ListAllSessionsStart
  \/ \E op \in InFlight : ListAllSessionsFinish(op)
  \/ Environment

SpecSession == Init /\ [][NextSession]_vars

\* set-tab-color with the color strings callers pass, next to open-terminal.
NextColor ==
  \/ \E wd \in WorkingDirectories : windowCounter = 0 /\ OpenTerminalStart(wd)
  \/ \E op \in InFlight : OpenTerminalFinish(op)
  \/ \E paneId \in SomePaneIdArgs, color \in ColorInputs :
        /\ \A op \in InFlight : op.tool # "set-tab-color"
        /\ SetTabColorStart(paneId, color)
  \/ \E op \in InFlight : SetTabColorFinish(op)
  \/ Environment

SpecColor == Init /\ [][NextColor]_vars

\* monitor-session next to open-terminal, a monitor overlapping an
\* open-terminal but not another monitor, with the seconds the scripts take.
NextMonitor ==
  \/ \E wd \in WorkingDirectories : OpenTerminalStart(wd)
  \/ \E op \in InFlight : OpenTerminalFinish(op)
  \/ \E paneId \in SomePaneIdArgs, duration \in Durations :
        /\ \A op \in InFlight : op.tool # "monitor-session"
        /\ MonitorSessionStart(paneId, duration)
  \/ \E op \in InFlight : MonitorSessionFinish(op)
  \/ Second
  \/ Environment

SpecMonitor == Init /\ [][NextMonitor]_vars

\* execute-command-in-pane next to open-terminal, with the shadow processes.
NextShadow ==
  \/ \E wd \in WorkingDirectories : OpenTerminalStart(wd)
  \/ \E op \in InFlight : OpenTerminalFinish(op)
  \/ \E paneId \in SomePaneIdArgs, command \in Commands :
        ExecuteCommandStart(paneId, command)
  \/ \E op \in InFlight : ExecuteCommandFinish(op)
  \/ \E paneId \in PaneIdArgs : ShadowOutput(paneId)
  \/ Environment

SpecShadow == Init /\ [][NextShadow]_vars

\* monitor-session over short durations, next to open-terminal, with sessions
\* whose variables change while they are polled.
LogDurations == {"2", "3"}

NextLog ==
  \/ \E wd \in WorkingDirectories : windowCounter = 0 /\ OpenTerminalStart(wd)
  \/ \E op \in InFlight : OpenTerminalFinish(op)
  \/ \E paneId \in SomePaneIdArgs, duration \in LogDurations :
        /\ \A op \in InFlight : op.tool # "monitor-session"
        /\ MonitorSessionStart(paneId, duration)
  \/ \E op \in InFlight : MonitorSessionFinish(op)
  \/ Second
  \/ Observe
  \/ Environment

SpecLog == Init /\ [][NextLog]_vars

\* The exec callback: the handler suspended on the bridge call of `op` resumes.
Finish(op) ==
  \/ OpenTerminalFinish(op)
  \/ SplitHorizontalFinish(op)
  \/ SplitVerticalFinish(op)
  \/ ExecuteCommandFinish(op)
  \/ GetSessionInfoFinish(op)
  \/ GetSessionDetailsFinish(op)
  \/ SetTabColorFinish(op)
  \/ ListAllSessionsFinish(op)
  \/ MonitorSessionFinish(op)
  \/ BroadcastInputFinish(op)

\* The python3 spawned for a call of `tool` starts.
ProcessStart(tool) == \E op \in InFlight : op.tool = tool /\ LoadScript(op)

\* The python3 spawned for a call of `tool` has exited or was killed, and the
\* handler resumes.
ProcessExit(tool) ==
  \E op \in InFlight :
     op.tool = tool /\ op.loaded # NotLoaded /\ ~Running(op) /\ Finish(op)

\* monitor-session after open-terminal, no call overlapping another call of
\* the same tool, under the scheduling of the event
\* loop and of the operating system: time passes, a spawned python3 starts, the
\* callback of a process that has exited or was killed runs, and a response is
\* written.  A process that is still running is not assumed to exit.
LiveDurations == {"2", "30", "40"}
LiveTools == {"open-terminal", "monitor-session"}

NextLive ==
  \/ \E wd \in WorkingDirectories : windowCounter = 0 /\ OpenTerminalStart(wd)
  \/ \E paneId \in SomePaneIdArgs, duration \in LiveDurations :
        /\ \A op \in InFlight : op.tool # "monitor-session"
        /\ MonitorSessionStart(paneId, duration)
  \/ \E op \in InFlight : OpenTerminalFinish(op)
  \/ \E op \in InFlight : MonitorSessionFinish(op)
  \/ Second
  \/ Environment

SpecLive ==
  /\ Init
  /\ [][NextLive]_vars
  /\ SF_vars(Second)
  /\ \A tool \in LiveTools : SF_vars(ProcessStart(tool))
  /\ \A tool \in LiveTools : SF_vars(ProcessExit(tool))
  /\ WF_vars(Deliver)

\* ================================================================ claims
SplitTools == {"split-terminal-horizontal", "split-terminal-vertical"}

\* The invocations that were suspended on a bridge call by the current step.
StartedOps ==
  {op \in BagToSet(ops') : op.loaded = NotLoaded /\ CopiesIn(op, ops') > CopiesIn(op, ops)}

\* The current step answered a call without suspending it or resuming one.
Answered == resp = NoResp /\ resp' # NoResp /\ ops' = ops

\* The identifiers of a kind in the order of their numeric suffixes.
Identifiers(prefix) == [n \in 1..(MaxPanes + 2) |-> prefix \o ToString(n - 1)]
Suffix(prefix, id) == CHOOSE n \in 1..(MaxPanes + 2) : Identifiers(prefix)[n] = id
StrictlyIncreasing(prefix, ids) ==
  \A i \in 1..(Len(ids) - 1) : Suffix(prefix, ids[i]) < Suffix(prefix, ids[i + 1])
UniqueKeys(m) == \A i, j \in 1..Len(m) : m[i].id = m[j].id => i = j

\* C1: for every interleaving of open-terminal and split invocations,
\* succeeding or failing, the numeric suffixes of the identifiers handed out
\* for a kind are strictly increasing in the order they were handed out, and
\* no two records of the tracker carry the same identifier.
C1_MonotonicUniqueIds ==
  /\ StrictlyIncreasing("window-", issued.window)
  /\ StrictlyIncreasing("tab-", issued.tab)
  /\ StrictlyIncreasing("pane-", issued.pane)
  /\ UniqueKeys(windows)
  /\ UniqueKeys(tabs)
  /\ UniqueKeys(panes)

\* All pane identifiers were handed out, some to calls whose bridge call
\* failed, and several records are tracked.
C1_Witness ==
  /\ Len(issued.pane) = MaxPanes
  /\ Len(issued.window) = MaxWindows
  /\ Len(panes) = 2
  /\ Len(windows) = 1

SplitSucceeded ==
  /\ resp.outcome = "returned"
  /\ resp.op.tool \in SplitTools
  /\ resp.text[1] \in {"Pane split horizontally - New pane: ",
                       "Pane split vertically - New pane: "}

\* C2: when a split of pane P has succeeded, P is inactive, the new pane is
\* active, the new pane's tabId and windowId are P's, and the new pane is in
\* the global pane map and in the pane map of P's tab.
C2_SplitMarksActive ==
  SplitSucceeded =>
    /\ MapHas(panes, resp.op.target)
    /\ MapHas(panes, resp.op.newPaneId)
    /\ LET P == MapGet(panes, resp.op.target)
           new == MapGet(panes, resp.op.newPaneId)
       IN /\ ~P.isActive
          /\ new.isActive
          /\ new.tabId = P.tabId
          /\ new.windowId = P.windowId
          /\ MapHas(tabs, P.tabId)
          /\ resp.op.newPaneId \in SeqRange(MapGet(tabs, P.tabId).panes)

\* A split of a pane named by the caller has succeeded in a tracker of at
\* least three panes.
C2_Witness ==
  /\ SplitSucceeded
  /\ Truthy(resp.op.paneId)
  /\ Len(panes) = MaxPanes

\* C3 (the claim as stated): a step that ends an operation whose bridge call
\* failed, or whose payload carries an error field, leaves the windows, tabs
\* and panes maps and every record in them as they were.
C3_FailureLeavesTracker ==
  [][(resp' # NoResp /\ (resp'.data = NoData \/ Truthy(resp'.data.error)))
       => UNCHANGED tracker]_vars

PaneTools ==
  SplitTools \cup {"execute-command-in-pane", "get-session-info", "set-tab-color",
                   "monitor-session"}

\* C4 (the claim as stated): a pane tool called with a paneId that is not in
\* the tracker answers `Pane <paneId> not found`, starts no bridge call and
\* leaves the tracker and the counters unchanged.
C4_UnknownPaneNotFound ==
  [][/\ \A op \in StartedOps :
          (op.tool \in PaneTools /\ op.paneId # Undefined)
            => MapHas(panes, op.paneId)
     /\ (Answered /\ resp'.op.tool \in PaneTools /\ resp'.op.paneId # Undefined
           /\ ~MapHas(panes, resp'.op.paneId))
          => /\ resp'.text = <<"Pane ", resp'.op.paneId, " not found">>
             /\ UNCHANGED <<tracker, counters>>]_vars

\* C5: a split called without a paneId answers `No active pane found` only
\* when no tracked pane is active, which includes the empty tracker, and
\* whenever a tracked pane is active it goes on to the bridge call with the
\* first active pane as its target.
C5_DefaultPane ==
  [][/\ \A op \in StartedOps :
          (op.tool \in SplitTools /\ ~Truthy(op.paneId))
            => /\ Len(activePanes) > 0
               /\ \E i \in 1..Len(panes) : panes[i].id = op.target /\ panes[i].isActive
     /\ (Answered /\ resp'.op.tool \in SplitTools /\ ~Truthy(resp'.op.paneId))
          => /\ \A i \in 1..Len(panes) : ~panes[i].isActive
             /\ resp'.text = <<"No active pane found">>]_vars

\* A split without paneId is suspended on its bridge call while the tracker
\* holds an inactive and an active pane.
C5_Witness ==
  /\ \E op \in InFlight : op.tool \in SplitTools /\ op.paneId = Undefined
  /\ \E i, j \in 1..Len(panes) : panes[i].isActive /\ ~panes[j].isActive

\* C6 (the claim as stated): no handler ends by raising an exception; a
\* failed bridge call is answered by a returned response.
C6_NoHandlerRaises == resp.outcome # "raised"

\* C7: every script file on disk is the file of a bridge call in progress;
\* when no bridge call is in progress no script file is left, whether the
\* calls succeeded, failed or timed out.
C7_ScriptRemoved ==
  /\ \A t \in Milliseconds :
        disk[t] # NoFile => \E op \in InFlight : op.scriptPath = t
  /\ ops = EmptyBag => \A t \in Milliseconds : disk[t] = NoFile

\* A bridge call has just failed and no bridge call is in progress.
C7_Witness ==
  /\ resp.outcome = "raised"
  /\ ops = EmptyBag

\* C8: broadcast-input with a list holding no identifier of the tracker (the
\* empty list included) answers `No valid panes found`, starts no bridge call
\* and sends text to no session.
C8_NoValidPanes ==
  [][/\ \A op \in StartedOps :
          op.tool = "broadcast-input" => Len(validPanes(op.paneIds)) > 0
     /\ (Answered /\ resp'.op.tool = "broadcast-input")
          => /\ Len(validPanes(resp'.op.paneIds)) = 0
             /\ resp'.text = <<"No valid panes found">>
             /\ received' = {}
             /\ UNCHANGED <<tracker, counters, sessionCounter>>]_vars

\* broadcast-input was called with a non-empty list of unknown identifiers
\* while the tracker holds a pane, and has answered.
C8_Witness ==
  /\ resp.op.tool = "broadcast-input"
  /\ resp.text = <<"No valid panes found">>
  /\ Len(resp.op.paneIds) > 0
  /\ Len(panes) > 0

BroadcastSucceeded ==
  /\ resp.op.tool = "broadcast-input"
  /\ resp.outcome = "returned"
  /\ resp.text[1] = "Broadcast Results:\nCommand \""

\* C9 (the claim as stated): after a broadcast over a list mixing known and
\* unknown identifiers, the sessions that were sent the command are exactly
\* the sessions of the known panes, and the breakdown has an entry for exactly
\* those sessions.
C9_BroadcastExactlyKnown ==
  BroadcastSucceeded =>
    LET known == {MapGet(panes, id).sessionId : id \in SeqRange(validPanes(resp.op.paneIds))}
    IN /\ received = known
       /\ {e.session_id : e \in resp.data.broadcast_results} = known

OpenSucceeded == resp.op.tool = "open-terminal" /\ resp.outcome = "returned"

\* C10 (the claim as stated): a successful open-terminal appends one window,
\* one tab and one pane and changes no other record; the three are linked to
\* each other, the pane is active at (0,0), and the text holds the three new
\* identifiers and the external session identifier.
C10_OpenTerminal ==
  [][OpenSucceeded' =>
       /\ windows' = Append(windows, windows'[Len(windows')])
       /\ tabs' = Append(tabs, tabs'[Len(tabs')])
       /\ panes' = Append(panes, panes'[Len(panes')])
       /\ LET window == windows'[Len(windows')]
              tab == tabs'[Len(tabs')]
              pane == panes'[Len(panes')]
          IN /\ window.id = resp'.op.windowId
             /\ tab.id = resp'.op.tabId
             /\ pane.id = resp'.op.newPaneId
             /\ pane.tabId = tab.id /\ pane.windowId = window.id
             /\ tab.panes = <<pane.id>> /\ tab.activePaneId = pane.id
             /\ window.tabs = <<tab.id>> /\ window.activeTabId = tab.id
             /\ pane.isActive /\ pane.position = [x |-> 0, y |-> 0]
             /\ {window.id, tab.id, pane.id, pane.sessionId} \subseteq SeqRange(resp'.text)
             /\ pane.sessionId \in Sessions']_vars

\* C11: a split-terminal-vertical without paneId that starts while the tracker
\* holds only the pane open-terminal created targets that pane; a successful
\* vertical split of S creates the new pane at (S.x + 1, S.y), a successful
\* horizontal split at (S.x, S.y + 1), and no step changes the position of a
\* pane that is already tracked.
C11_SplitPosition ==
  [][/\ \A op \in StartedOps :
          (op.tool = "split-terminal-vertical" /\ op.paneId = Undefined
             /\ Len(panes) = 1)
            => op.target = panes[1].id
     /\ SplitSucceeded' =>
          LET S == MapGet(panes, resp'.op.target)
              new == MapGet(panes', resp'.op.newPaneId)
              vertical == resp'.op.tool = "split-terminal-vertical"
          IN /\ new.position.x = S.position.x + (IF vertical THEN 1 ELSE 0)
             /\ new.position.y = S.position.y + (IF vertical THEN 0 ELSE 1)
             /\ MapGet(panes', S.id).position = S.position
     /\ \A i \in 1..Len(panes) : panes'[i].position = panes[i].position]_vars

\* A vertical split without paneId has succeeded on a pane that is not at the
\* origin: the new pane is at (1, 1).
C11_Witness ==
  /\ SplitSucceeded
  /\ resp.op.tool = "split-terminal-vertical"
  /\ resp.op.paneId = Undefined
  /\ MapGet(panes, resp.op.newPaneId).position = [x |-> 1, y |-> 1]

\* C12: no python3 process runs longer than the 30 seconds of the harness; a
\* process that is still running after 30 seconds is killed by `timeout 30`,
\* its bridge call can only fail, with the error of a failed command, and no
\* bridge call is ever ended by the 35 s timeout of exec.
C12_HarnessTimeout ==
  /\ \A op \in InFlight :
        /\ op.elapsed <= HarnessTimeout
        /\ op.elapsed = HarnessTimeout =>
             BridgeResults(op) = {Killed(op, "timeout")}
  /\ ran.endedBy # "exec timeout"
  /\ ran.endedBy = "timeout" =>
        /\ ran.seconds = HarnessTimeout
        /\ "Python execution failed: Command failed" \in SeqRange(resp.text)

\* A monitor-session script that was still polling after 30 seconds has been
\* killed and its handler has answered.
C12_Witness ==
  /\ ran.endedBy = "timeout"
  /\ resp.op.tool = "monitor-session"
  /\ resp.text[1] = "Failed to monitor session: "

\* C13 (the claim as stated): one operation is handled at a time: a handler
\* resolves its target, answers or changes the tracker only while no other
\* handler is suspended on its bridge call.
C13_OneAtATime ==
  [][/\ StartedOps # {} => ops = EmptyBag
     /\ Answered => ops = EmptyBag
     /\ tracker' # tracker => ops' = EmptyBag]_vars

\* C14 (the claim as stated): the script file of a bridge call is its own: no
\* two bridge calls in progress have the same script path, and the script
\* python3 runs for a bridge call is the script that call wrote.
C14_OwnScript ==
  /\ \A a, b \in InFlight : a.scriptPath = b.scriptPath => a = b
  /\ \A op \in InFlight :
        /\ CopiesIn(op, ops) = 1
        /\ op.loaded # NotLoaded => op.loaded = op.script

C16_ErrorVerbatim ==
  Truthy(ran.stdout.error) => ran.stdout.error \in SeqRange(resp.text)

\* C17: no step removes a pane from the tracker or changes the external
\* session identifier, the tab identifier or the window identifier of a
\* tracked pane, and every script generated for a tracked pane names that
\* pane by its external session identifier.
C17_PaneIdentity ==
  [][/\ Len(panes') >= Len(panes)
     /\ \A i \in 1..Len(panes) :
           /\ panes'[i].id = panes[i].id
           /\ panes'[i].sessionId = panes[i].sessionId
           /\ panes'[i].tabId = panes[i].tabId
           /\ panes'[i].windowId = panes[i].windowId
     /\ \A op \in StartedOps :
           MapHas(panes, op.target) =>
             op.script.sessionIds = <<MapGet(panes, op.target).sessionId>>]_vars

\* get-session-info has refreshed the cached fields of a tracked pane.
C17_Witness ==
  /\ resp.op.tool = "get-session-info"
  /\ resp.text[1] = "Session Information for "
  /\ MapHas(panes, resp.op.target)
  /\ MapGet(panes, resp.op.target).title = SessionTitle
  /\ MapGet(panes, resp.op.target).sessionId = SessionId(0)

\* C18: every tracked pane is in the pane map of exactly one tracked tab, the
\* tab its tabId names; every tracked tab is in the tab map of exactly one
\* tracked window, the window its windowId names; a pane's windowId is the
\* windowId of its tab.
C18_Containment ==
  /\ \A i \in 1..Len(panes) :
        /\ MapHas(tabs, panes[i].tabId)
        /\ {t \in 1..Len(tabs) : panes[i].id \in SeqRange(tabs[t].panes)}
             = {MapIndex(tabs, panes[i].tabId)}
        /\ panes[i].windowId = MapGet(tabs, panes[i].tabId).windowId
  /\ \A t \in 1..Len(tabs) :
        /\ MapHas(windows, tabs[t].windowId)
        /\ {w \in 1..Len(windows) : tabs[t].id \in SeqRange(windows[w].tabs)}
             = {MapIndex(windows, tabs[t].windowId)}

\* Two windows are tracked and one of their panes has been split.
C18_Witness ==
  /\ Len(windows) = MaxWindows
  /\ Len(panes) = MaxPanes
  /\ \E t \in 1..Len(tabs) : Len(tabs[t].panes) = 2

\* What the claim says of each color string: the channel triple, in
\* multiples of 1/2550 (1 is 2550, 0.5 is 1275, n/255 is 10 n).
ClaimedColor(string) ==
  CASE string \in {"#FF0000", "#ff0000", "red", "RED", "Red"} -> <<2550, 0, 0>>
    [] string \in {"#00FF00", "green"} -> <<0, 2550, 0>>
    [] string = "#0A141E" -> <<100, 200, 300>>
    [] string = "blue" -> <<0, 0, 2550>>
    [] string = "yellow" -> <<2550, 2550, 0>>
    [] string = "purple" -> <<2550, 0, 2550>>
    [] string = "cyan" -> <<0, 2550, 2550>>
    [] string = "orange" -> <<2550, 1275, 0>>
    [] string = "pink" -> <<2550, 1785, 2040>>
    [] OTHER -> <<1275, 1275, 1275>>

\* The color strings the claim speaks of: `#` followed by six hex digits,
\* and names.
ClaimedInputs == ColorInputs \ {"#FFF", "#GG0000"}

\* C19: the triple a set-tab-color script hands to iterm2.Color for a
\* `#RRGGBB` string is (RR/255, GG/255, BB/255), for one of the eight names in
\* any letter case its fixed triple, for any other name (0.5, 0.5, 0.5); the
\* script raises for none of these strings, and `#FF0000` and `red` give the
\* same triple (1, 0, 0).
C19_ColorResolution ==
  /\ ran.color # NoColor =>
        /\ ran.stdout.script.tool = "set-tab-color"
        /\ ran.stdout.script.arg \in ClaimedInputs
        /\ ran.color = ClaimedColor(ran.stdout.script.arg)
  /\ \A string \in ClaimedInputs : ~ColorRaises(Characters(string))
  /\ ColorObj(Characters("#FF0000")) = ColorObj(Characters("red"))

\* set-tab-color has set the color `RED` names: the triple (1, 0, 0).
C19_Witness ==
  /\ resp.op.tool = "set-tab-color"
  /\ resp.text = <<"Tab color set to ", "RED", " for pane ", PaneId(0)>>
  /\ ran.color = <<2550, 0, 0>>

\* The seconds the claim says a monitor-session call observes the session.
ClaimedDuration(duration) ==
  IF duration = Undefined THEN 10 ELSE ParseNat(duration)

\* C20 (the claim as stated): a monitor-session call is never ended by the
\* timeout, and when its own script has found the session and has ended, the
\* script has observed the session for the duration the caller passed (10
\* seconds when none was passed) and the answer carries that duration.
C20_MonitorDuration ==
  resp.op.tool = "monitor-session" =>
    /\ ran.endedBy # "timeout"
    /\ (ran.stdout.script = resp.op.script /\ ~Truthy(ran.stdout.error)) =>
          /\ resp.text[1] = "Session Monitoring Results for "
          /\ ran.seconds = ClaimedDuration(resp.op.arg)
          /\ resp.data.monitoring_duration = ToString(ClaimedDuration(resp.op.arg))

\* The active panes of the tab of pane `paneId`.
ActiveInTabOf(paneId) ==
  {i \in 1..Len(panes) :
     panes[i].tabId = MapGet(panes, paneId).tabId /\ panes[i].isActive}

\* C21 (the claim as stated): when a split has succeeded, at most one pane of
\* the tab of the split target has its active flag set.
C21_OneActivePerTab ==
  SplitSucceeded => Cardinality(ActiveInTabOf(resp.op.target)) <= 1

\* The pane that was inserted into the tracker earliest among the active ones.
EarliestActive ==
  panes[CHOOSE i \in 1..Len(panes) :
          panes[i].isActive /\ \A j \in 1..(i - 1) : ~panes[j].isActive].id

\* C22: a split without paneId that goes on to the bridge call targets the
\* active pane that was inserted into the tracker earliest, which is
\* determined by the tracker alone, whatever the order the identifiers were
\* handed out in.
C22_EarliestActive ==
  [][\A op \in StartedOps :
        (op.tool \in SplitTools /\ ~Truthy(op.paneId))
          => op.target = EarliestActive]_vars

\* Two open-terminal calls have completed in the reverse of the order they
\* started in, both panes are active, and a split without paneId is suspended
\* on its bridge call with the pane inserted first as its target.
C22_Witness ==
  /\ Len(panes) = 2
  /\ panes[1].id = PaneId(1) /\ panes[2].id = PaneId(0)
  /\ panes[1].isActive /\ panes[2].isActive
  /\ \E op \in InFlight :
        op.tool \in SplitTools /\ op.paneId = Undefined /\ op.target = PaneId(1)

\* C25: whenever the tracker holds a pane, some tracked pane is active, and a
\* split without paneId answers `No active pane found` only while the tracker
\* is empty.
C25_SomeActive ==
  [][/\ Len(panes') > 0 => \E i \in 1..Len(panes') : panes'[i].isActive
     /\ (Answered /\ resp'.op.tool \in SplitTools
           /\ resp'.text = <<"No active pane found">>) => panes = <<>>]_vars

\* The tracker holds as many panes as identifiers can be handed out, two of
\* them demoted by splits, and exactly one pane is active.
C25_Witness ==
  /\ Len(panes) = MaxPanes
  /\ Cardinality({i \in 1..Len(panes) : panes[i].isActive}) = 1
  /\ SplitSucceeded

\* C26 (the claim as stated): the activePaneId of every tab names a pane of
\* that tab whose active flag is set, and after a successful split it names
\* the new pane.
C26_ActivePaneId ==
  /\ \A t \in 1..Len(tabs) :
        /\ tabs[t].activePaneId \in SeqRange(tabs[t].panes)
        /\ MapHas(panes, tabs[t].activePaneId)
        /\ MapGet(panes, tabs[t].activePaneId).isActive
  /\ SplitSucceeded =>
        MapGet(tabs, MapGet(panes, resp.op.target).tabId).activePaneId
          = resp.op.newPaneId

\* C27 (the claim as stated): when no operation is in progress each counter
\* is the number of records of its kind, and the tracked identifiers are the
\* first ones of their kind.
C27_CountersMatch ==
  (ops = EmptyBag /\ resp = NoResp) =>
    /\ windowCounter = Len(windows)
    /\ tabCounter = Len(tabs)
    /\ paneCounter = Len(panes)
    /\ MapKeys(windows) = {WindowId(n) : n \in 0..(Len(windows) - 1)}
    /\ MapKeys(tabs) = {TabId(n) : n \in 0..(Len(tabs) - 1)}
    /\ MapKeys(panes) = {PaneId(n) : n \in 0..(Len(panes) - 1)}

\* C28 (the claim as stated): every chunk the shadow process of a tracked pane
\* has written to its stdout or stderr is in that pane's output buffer.
C28_ShadowOutput ==
  \A i \in 1..Len(panes) : Len(panes[i].output) = panes[i].process.written

\* The reading a log entry holds.
ReadingOf(entry) ==
  Snapshot(entry.working_directory, entry.foreground_job, entry.at_shell_prompt)

\* The log the claim describes for the readings `observed`, the initial one
\* first and then one for each poll.
RECURSIVE ClaimedLog(_)
ClaimedLog(observed) ==
  IF Len(observed) = 0 THEN <<>>
  ELSE IF Len(observed) = 1
  THEN <<LogEntry("monitoring_started", 0, observed[1])>>
  ELSE LET log == ClaimedLog(SubSeq(observed, 1, Len(observed) - 1))
           curr == observed[Len(observed)]
       IN IF ReadingOf(log[Len(log)]) # curr
          THEN Append(log, LogEntry("change_detected", Len(observed) - 1, curr))
          ELSE log

\* What the claim says of a log and the readings it was made from.
ClaimedOf(changes, observed) ==
  /\ changes = ClaimedLog(observed)
  /\ changes[1].event = "monitoring_started"
  /\ ReadingOf(changes[1]) = observed[1]
  /\ \A i \in 2..Len(changes) : changes[i].event = "change_detected"
  /\ \A i \in 1..(Len(changes) - 1) :
        /\ ReadingOf(changes[i]) # ReadingOf(changes[i + 1])
        /\ changes[i].timestamp < changes[i + 1].timestamp
  /\ Len(changes) <= Len(observed)

\* C23: the log of a monitor-session script, while it polls and when it is
\* returned, starts with one `monitoring_started` entry holding the initial
\* reading and has one `change_detected` entry for exactly the polls whose
\* reading differs from the entry logged last; consecutive entries differ and
\* there is at most one entry per poll next to the initial one.
C23_ChangeLog ==
  /\ \A op \in InFlight :
        op.loaded.tool = "monitor-session" =>
          /\ Len(op.observed) = op.elapsed + 1
          /\ ClaimedOf(op.changes, op.observed)
  /\ (resp.outcome = "returned" /\ resp.data.monitoring_duration # Undefined) =>
        ClaimedOf(resp.data.changes, ran.observed)

\* monitor-session has returned the log of three polls: the first read a
\* change, the second read the same values again and the third read the
\* initial values.
C23_Witness ==
  /\ resp.outcome = "returned"
  /\ resp.data.monitoring_duration = "3"
  /\ Len(ran.observed) = 4
  /\ ran.observed[2] # Steady
  /\ ran.observed[3] = ran.observed[2]
  /\ ran.observed[4] = Steady
  /\ Len(resp.data.changes) = 3

\* C24: every invocation that is suspended on its bridge call is eventually
\* resumed and answered, and every answer is eventually written, also when
\* the script would run longer than the time limit.
C24_EventuallyAnswered ==
  /\ \A tool \in LiveTools :
        (\E op \in InFlight : op.tool = tool)
          ~> (resp.op.tool = tool /\ resp.outcome \in {"returned", "raised"})
  /\ (resp # NoResp) ~> (resp = NoResp)

\* A monitor-session whose script would poll for 40 seconds was killed by the
\* time limit after 30 seconds and has answered with the failure.
C24_Witness ==
  /\ ran.endedBy = "timeout"
  /\ ran.seconds = HarnessTimeout
  /\ resp.op.tool = "monitor-session"
  /\ resp.op.arg = "40"
  /\ resp.outcome = "returned"

====
